---- MODULE Spec2Model ----
(***************************************************************************)
(* Environment orchestrator of kubdev-auto-system: the environment record *)
(* table, the Kubernetes cluster as the backend sees it, and the handlers  *)
(* that create environments and run their lifecycle (start, stop, restart, *)
(* delete).  Every handler is one action; the cluster calls a handler      *)
(* makes and its HTTP outcome are kept in lastOp.                          *)
(***************************************************************************)
EXTENDS Integers, Sequences, FiniteSets, TLC

\* ---------------------------------------------------------------- bounds
\* Number of rows the environment_instances table may ever receive.
MaxEnvs == 2
\* Number of rows the users table may ever receive.
MaxUsers == 2

EnvIds == 1..MaxEnvs
UserIds == 1..MaxUsers

\* ------------------------------------------------------------ vocabulary
NULL == "null"

\* app/models/environment.py: EnvironmentStatus
EnvironmentStatus ==
    {"pending", "creating", "running", "stopping", "stopped", "error", "expired"}

\* Namespaces the code names: the manifest default, the shared CR namespace,
\* and the per-user namespace f"user-{id}".
DEFAULT_NAMESPACE == <<"default">>
KUBDEV_USERS == <<"kubdev-users">>
SharedNamespaces == {DEFAULT_NAMESPACE, KUBDEV_USERS}
user_namespace(uid) == <<"user", uid>>

\* Workload names the code derives: f"env-user-{id}", f"mock-{id}",
\* f"env-{user}-{template}".
env_user_name(uid) == <<"env-user", uid>>
mock_name(uid) == <<"mock", uid>>
env_template_name(uid) == <<"env", uid>>

\* The caller of a request: a principal id and its role.  The roles are the
\* two that api/endpoints/user.py names: it admits a caller whose role is
\* UserRole.ADMIN and inserts every user it creates as UserRole.USER.
Admin == [id |-> 0, role |-> "admin"]
Callers == {Admin} \cup {[id |-> u, role |-> "user"] : u \in UserIds}
NoCaller == [id |-> 0, role |-> "none"]

\* How one cluster call can fail for reasons outside the cluster's content:
\*   "unavailable"  KubernetesService.k8s_available is False (no kubeconfig)
\*   "api_error"    the API answers with an ApiException other than 404/409
Faults == {"none", "unavailable", "api_error"}

\* A manifest, as far as the create paths read it: whether the YAML document
\* is a mapping, its apiVersion and kind, metadata.namespace, metadata.name
\* and spec.userName.  NONE stands for a key that is missing.
NONE == <<"none">>
API_VERSION == "kubedev.my-project.com/v1alpha1"
KIND == "KubeDevEnvironment"
NotAMapping ==
    [mapping |-> FALSE, apiVersion |-> "none", kind |-> "none",
     namespace |-> NONE, name |-> NONE, userName |-> NONE]
WrongApiVersion ==
    [mapping |-> TRUE, apiVersion |-> "v1", kind |-> KIND,
     namespace |-> NONE, name |-> NONE, userName |-> NONE]
WrongKind ==
    [mapping |-> TRUE, apiVersion |-> API_VERSION, kind |-> "Pod",
     namespace |-> KUBDEV_USERS, name |-> <<"my-env">>,
     userName |-> <<"e", "v", "e">>]
UploadedManifests ==
    {NotAMapping, WrongApiVersion, WrongKind} \cup
    [mapping : {TRUE}, apiVersion : {API_VERSION}, kind : {KIND},
     namespace : {NONE} \cup SharedNamespaces,
     name : {NONE, <<"my-env">>},
     userName : {NONE, <<"e", "v", "e">>}]

\* The CRD check without its comparison of the kind.
is_valid_ignoring_kind(manifest) ==
    /\ manifest.mapping
    /\ manifest.apiVersion = API_VERSION

\* The CRD check of both create paths.
is_valid(manifest) ==
    /\ manifest.mapping
    /\ manifest.apiVersion = API_VERSION
    /\ manifest.kind = KIND

\* The manifests of the template files that create_user_with_environment
\* reads from disk: they leave the name and the user to the server, and are
\* the CRD's own kind unless the file is broken.
Manifests ==
    {m \in UploadedManifests :
        /\ m.name = NONE
        /\ m.userName = NONE
        /\ m.apiVersion # "v1"}

\* Names that users are created with.
UserNames == {<<"a", "l">>, <<"K", " ", "m">>}

NoEnv == [status |-> "absent"]

VARIABLES
    envs,          \* environment_instances: id -> row (rows that exist)
    next_env_id,   \* next primary key of environment_instances
    next_user_id,  \* next primary key of users
    cluster,       \* namespaces, custom objects and deployments in Kubernetes
    reconcilers,   \* running _wait_for_deployment_ready tasks: id of the
                   \* row -> seconds since the task's start_time
    restarting,    \* restart_environment calls in their asyncio.sleep(5):
                   \* id of the row -> the calls, oldest first
    lastOp         \* the last handler run: who called, its calls and outcome

vars ==
    <<envs, next_env_id, next_user_id, cluster, reconcilers, restarting, lastOp>>

Key(ns, name) == [ns |-> ns, name |-> name]

Row(e) == IF e \in DOMAIN envs THEN envs[e] ELSE NoEnv

Remove(f, k) == [x \in DOMAIN f \ {k} |-> f[x]]

\* ------------------------------------------------- KubernetesService
\* Each operator is one method: it takes the cluster and the fault of this
\* call and returns what the method returns (ret), whether it raised, the
\* outcome as the cluster reported it, and the cluster afterwards.

K8sResult(ret, raised, outcome, cl) ==
    [ret |-> ret, raised |-> raised, outcome |-> outcome, cluster |-> cl]

scale_deployment(cl, ns, name, replicas, fault) ==
    IF fault = "unavailable" THEN K8sResult(FALSE, FALSE, "unavailable", cl)
    ELSE IF fault = "api_error" THEN K8sResult(FALSE, FALSE, "api_error", cl)
    ELSE IF Key(ns, name) \notin DOMAIN cl.deployments
         THEN K8sResult(FALSE, FALSE, "not_found", cl)
    ELSE K8sResult(TRUE, FALSE, "ok",
            [cl EXCEPT !.deployments[Key(ns, name)] = replicas])

\* Deleting a namespace removes everything that lives in it.
Cascade(cl, ns) ==
    [namespaces |-> cl.namespaces \ {ns},
     custom_objects |-> {k \in cl.custom_objects : k.ns # ns},
     deployments |-> [k \in {d \in DOMAIN cl.deployments : d.ns # ns}
                        |-> cl.deployments[k]]]

\* The API server refuses to delete the namespace "default" (403), which
\* delete_namespace sees as an ApiException other than 404.
ProtectedNamespaces == {DEFAULT_NAMESPACE}

delete_namespace_raising_on_404(cl, ns, fault) ==
    IF fault = "unavailable" THEN K8sResult(FALSE, TRUE, "unavailable", cl)
    ELSE IF fault = "api_error" \/ ns \in ProtectedNamespaces
         THEN K8sResult(FALSE, FALSE, "api_error", cl)
    ELSE IF ns \notin cl.namespaces THEN K8sResult(FALSE, TRUE, "not_found", cl)
    ELSE K8sResult(TRUE, FALSE, "ok", Cascade(cl, ns))

delete_namespace(cl, ns, fault) ==
    IF fault = "unavailable" THEN K8sResult(FALSE, TRUE, "unavailable", cl)
    ELSE IF fault = "api_error" \/ ns \in ProtectedNamespaces
         THEN K8sResult(FALSE, FALSE, "api_error", cl)
    ELSE IF ns \notin cl.namespaces THEN K8sResult(TRUE, FALSE, "not_found", cl)
    ELSE K8sResult(TRUE, FALSE, "ok", Cascade(cl, ns))

\* Returns the status dictionary; it never raises and never answers
\* "not_found": a missing deployment is an ApiException, reported as "Error".
get_deployment_status(cl, ns, name, fault, ready) ==
    IF fault # "none" \/ Key(ns, name) \notin DOMAIN cl.deployments
    THEN [status |-> "Error", ready_replicas |-> 0]
    ELSE LET ready_replicas ==
                 IF ready /\ cl.deployments[Key(ns, name)] >= 1 THEN 1 ELSE 0
         IN  [status |-> IF ready_replicas >= 1 THEN "Running" ELSE "Pending",
              ready_replicas |-> ready_replicas]

create_custom_object(cl, ns, name, fault) ==
    IF fault = "unavailable" THEN K8sResult(FALSE, TRUE, "unavailable", cl)
    ELSE IF name = NONE THEN K8sResult(FALSE, TRUE, "value_error", cl)
    ELSE IF fault = "api_error" THEN K8sResult(FALSE, TRUE, "api_error", cl)
    ELSE IF ns \notin cl.namespaces THEN K8sResult(FALSE, TRUE, "not_found", cl)
    ELSE IF Key(ns, name) \in cl.custom_objects
         THEN K8sResult(FALSE, TRUE, "already_exists", cl)
    ELSE K8sResult(TRUE, FALSE, "ok",
            [cl EXCEPT !.custom_objects = @ \cup {Key(ns, name)}])

create_namespace(cl, ns, fault) ==
    IF fault = "unavailable" THEN K8sResult(FALSE, TRUE, "unavailable", cl)
    ELSE IF fault = "api_error" THEN K8sResult(FALSE, TRUE, "api_error", cl)
    ELSE IF ns \in cl.namespaces THEN K8sResult(TRUE, FALSE, "already_exists", cl)
    ELSE K8sResult(TRUE, FALSE, "ok", [cl EXCEPT !.namespaces = @ \cup {ns}])

create_deployment(cl, ns, name, fault) ==
    IF fault = "unavailable" THEN K8sResult(FALSE, TRUE, "unavailable", cl)
    ELSE IF fault = "api_error" THEN K8sResult(FALSE, TRUE, "api_error", cl)
    ELSE IF ns \notin cl.namespaces THEN K8sResult(FALSE, TRUE, "not_found", cl)
    ELSE IF Key(ns, name) \in DOMAIN cl.deployments
         THEN K8sResult(FALSE, TRUE, "already_exists", cl)
    ELSE K8sResult(TRUE, FALSE, "ok",
            [cl EXCEPT !.deployments = @ @@ (Key(ns, name) :> 1)])

\* ------------------------------------------------------------ sanitizers
\* A name is a sequence of characters; a character is a one-character
\* string, or the code point of a character outside ASCII ("U+00E9").
LowerLetters ==
    {"a", "b", "c", "d", "e", "f", "g", "h", "i", "j", "k", "l", "m",
     "n", "o", "p", "q", "r", "s", "t", "u", "v", "w", "x", "y", "z"}
UPPER == <<"A", "B", "C", "D", "E", "F", "G", "H", "I", "J", "K", "L", "M",
           "N", "O", "P", "Q", "R", "S", "T", "U", "V", "W", "X", "Y", "Z">>
LOWER == <<"a", "b", "c", "d", "e", "f", "g", "h", "i", "j", "k", "l", "m",
           "n", "o", "p", "q", "r", "s", "t", "u", "v", "w", "x", "y", "z">>
DIGITS == <<"0", "1", "2", "3", "4", "5", "6", "7", "8", "9">>
Digits == {DIGITS[i] : i \in DOMAIN DIGITS}
UpperLetters == {UPPER[i] : i \in DOMAIN UPPER}
AsciiChars == LowerLetters \cup UpperLetters \cup Digits \cup {"-", " ", "_", "!"}

\* unicodedata.normalize('NFKD', name): e-acute decomposes into "e" and a
\* combining accent, a Hangul syllable into its jamo; ASCII stays as it is.
NFKD(c) ==
    IF c = "U+00E9" THEN <<"e", "U+0301">>
    ELSE IF c = "U+D55C" THEN <<"U+1112", "U+1161", "U+11AB">>
    ELSE <<c>>

RECURSIVE normalize(_)
normalize(name) ==
    IF name = <<>> THEN <<>> ELSE NFKD(Head(name)) \o normalize(Tail(name))

\* .encode('ASCII', 'ignore').decode('ASCII')
IsAscii(c) == c \in AsciiChars
encode_ascii_ignore(name) == SelectSeq(name, IsAscii)

\* .replace(' ', '-')
replace_spaces(name) ==
    [i \in DOMAIN name |-> IF name[i] = " " THEN "-" ELSE name[i]]

\* .lower()
lower_char(c) ==
    IF c \in UpperLetters THEN LOWER[CHOOSE i \in DOMAIN UPPER : UPPER[i] = c]
    ELSE c
lower(name) == [i \in DOMAIN name |-> lower_char(name[i])]

\* re.sub(r'[^a-z0-9-]', '', name)
IsNameChar(c) == c \in LowerLetters \cup Digits \cup {"-"}
remove_other_chars(name) == SelectSeq(name, IsNameChar)

\* re.sub(r'-+', '-', name)
RECURSIVE collapse_hyphens(_)
collapse_hyphens(name) ==
    IF Len(name) < 2 THEN name
    ELSE IF name[1] = "-" /\ name[2] = "-" THEN collapse_hyphens(Tail(name))
    ELSE <<name[1]>> \o collapse_hyphens(Tail(name))

\* .strip('-')
RECURSIVE lstrip_hyphens(_)
lstrip_hyphens(name) ==
    IF name # <<>> /\ Head(name) = "-" THEN lstrip_hyphens(Tail(name)) ELSE name
RECURSIVE rstrip_hyphens(_)
rstrip_hyphens(name) ==
    IF name # <<>> /\ name[Len(name)] = "-"
    THEN rstrip_hyphens(SubSeq(name, 1, Len(name) - 1)) ELSE name
strip_hyphens(name) == rstrip_hyphens(lstrip_hyphens(name))

\* str.isalnum() of one character left by the filters above
isalnum(c) == c \in LowerLetters \cup UpperLetters \cup Digits

\* name[:K8S_NAME_MAX]
K8S_NAME_MAX == 63
truncate(name) ==
    SubSeq(name, 1, IF Len(name) < K8S_NAME_MAX THEN Len(name) ELSE K8S_NAME_MAX)

\* str(n) of a user id
RECURSIVE decimal(_)
decimal(n) ==
    IF n < 10 THEN <<DIGITS[n + 1]>> ELSE decimal(n \div 10) \o <<DIGITS[(n % 10) + 1]>>

\* The steps both sanitizers share, up to the stripping of hyphens.
cleaned(name) ==
    strip_hyphens(collapse_hyphens(remove_other_chars(
        lower(replace_spaces(encode_ascii_ignore(normalize(name)))))))

\* api/endpoints/user.py
sanitize_name_for_k8s(name) ==
    LET sanitized == cleaned(name)
        named == IF sanitized = <<>> THEN <<"u", "s", "e", "r">> ELSE sanitized
        started == IF named # <<>> /\ ~isalnum(named[1]) THEN <<"u">> \o named
                   ELSE named
    IN  truncate(started)

\* The sanitize_for_k8s local to create_environment_from_yaml, for the user
\* with id uid.
sanitize_for_k8s(name, uid) ==
    LET sanitized == cleaned(name)
    IN  truncate(IF sanitized = <<>> \/ ~isalnum(sanitized[1])
                 THEN <<"u", "s", "e", "r", "-">> \o decimal(uid)
                 ELSE sanitized)

\* ------------------------------------------------- NotificationService
\* How one notification ends:
\*   "sent"           the hook answered 2xx
\*   "skipped"        SLACK_WEBHOOK_URL is not set, nothing is posted
\*   "request_error"  httpx.RequestError, logged by send_slack_notification
\*   "status_error"   httpx.HTTPStatusError, logged by send_slack_notification
\*   "raised"         any other exception between the caller's try and the
\*                    POST (the message reads environment.user.name)
Posts == {"sent", "skipped", "request_error", "status_error", "raised"}

\* What the caller's try block sees of it.
send_slack_notification(post) ==
    [call |-> "send_slack_notification", outcome |-> post,
     raised |-> post = "raised"]

ScaleCall(replicas, outcome) ==
    [call |-> "scale_deployment", replicas |-> replicas, outcome |-> outcome]
Call(name, outcome) == [call |-> name, outcome |-> outcome]

\* ------------------------------------------------- EnvironmentService
\* What a service method leaves behind: the row (NoEnv once deleted), the
\* cluster, the external calls in the order made, whether it raised, and
\* whether it spawned _wait_for_deployment_ready.
Result(env, cl, calls, raised, spawned) ==
    [env |-> env, cluster |-> cl, calls |-> calls, raised |-> raised,
     spawned |-> spawned]

\* Quota, service and ingress are created with the same client as the
\* deployment; the cluster model keeps the namespace and the deployment.
deploy_environment(env, cl, fault) ==
    LET creating == [env EXCEPT !.status = "creating"]
        ns == create_namespace(cl, env.k8s_namespace, fault)
        dep == create_deployment(ns.cluster, env.k8s_namespace,
                                 env.k8s_deployment_name, fault)
        failed == [creating EXCEPT !.status = "error"]
    IN  IF ns.raised
        THEN Result(failed, cl, <<Call("create_namespace", ns.outcome)>>,
                    TRUE, FALSE)
        ELSE IF dep.raised
        THEN Result(failed, ns.cluster,
                    <<Call("create_namespace", ns.outcome),
                      Call("create_deployment", dep.outcome)>>, TRUE, FALSE)
        ELSE Result([creating EXCEPT !.access_url = "url", !.status = "running"],
                    dep.cluster,
                    <<Call("create_namespace", ns.outcome),
                      Call("create_deployment", dep.outcome)>>, FALSE, TRUE)

start_environment_without_running_check(env, cl, fault, ready) ==
    LET st == get_deployment_status(cl, env.k8s_namespace,
                                    env.k8s_deployment_name, fault, ready)
        seen == <<Call("get_deployment_status", "returned")>>
    IN  Result([env EXCEPT !.status = "running"], cl, seen, FALSE, FALSE)

start_environment(env, cl, fault, ready) ==
    IF env.status = "running" THEN Result(env, cl, <<>>, FALSE, FALSE)
    ELSE
    LET st == get_deployment_status(cl, env.k8s_namespace,
                                    env.k8s_deployment_name, fault, ready)
        seen == <<Call("get_deployment_status", "returned")>>
    IN  IF st.status = "not_found"
        THEN LET d == deploy_environment(env, cl, fault)
             IN  IF d.raised
                 THEN Result([d.env EXCEPT !.status = "error"],
                             d.cluster, seen \o d.calls, TRUE, FALSE)
                 ELSE Result(d.env, d.cluster, seen \o d.calls, FALSE, TRUE)
        ELSE \* "TODO: Implement scale-up logic in k8s_service"
             Result([env EXCEPT !.status = "running"], cl, seen, FALSE, FALSE)

\* scale_deployment's return value is not read.  stopped_at and
\* status_message are written in the same commit as status and are not kept.
\* stop_environment with the notification outside of a try of its own: what
\* it raises reaches the handler of the method.
stop_environment_without_inner_try(env, cl, fault, post) ==
    LET s == scale_deployment(cl, env.k8s_namespace, env.k8s_deployment_name,
                              0, fault)
        n == send_slack_notification(post)
    IN  IF n.raised
        THEN Result([env EXCEPT !.status = "error"], s.cluster,
                    <<ScaleCall(0, s.outcome), Call(n.call, n.outcome)>>,
                    TRUE, FALSE)
        ELSE Result([env EXCEPT !.status = "stopped"], s.cluster,
                    <<ScaleCall(0, s.outcome), Call(n.call, n.outcome)>>,
                    FALSE, FALSE)

\* The notification follows the commit of stopped, inside a try of its own
\* that logs whatever it raises.
stop_environment(env, cl, fault, post) ==
    LET s == scale_deployment(cl, env.k8s_namespace, env.k8s_deployment_name,
                              0, fault)
        n == send_slack_notification(post)
    IN  Result([env EXCEPT !.status = "stopped"],
               s.cluster,
               <<ScaleCall(0, s.outcome), Call(n.call, n.outcome)>>,
               FALSE, FALSE)

\* Both scale_deployment return values are dropped; asyncio.sleep(5) lies
\* between the two calls.
restart_environment(env, cl, fault0, fault1) ==
    LET down == scale_deployment(cl, env.k8s_namespace,
                                 env.k8s_deployment_name, 0, fault0)
        up == scale_deployment(down.cluster, env.k8s_namespace,
                               env.k8s_deployment_name, 1, fault1)
    IN  Result([env EXCEPT !.status = "running"],
               up.cluster,
               <<ScaleCall(0, down.outcome), ScaleCall(1, up.outcome)>>,
               FALSE, FALSE)

\* delete_namespace's return value is not read: only its raising keeps the row.
\* The notification precedes the removal of the row, inside a try of its own.
delete_environment(env, cl, fault, post) ==
    LET d == delete_namespace(cl, env.k8s_namespace, fault)
        n == send_slack_notification(post)
    IN  IF d.raised
        THEN Result(env, cl, <<Call("delete_namespace", d.outcome)>>, TRUE, FALSE)
        ELSE Result(NoEnv, d.cluster,
                    <<Call("delete_namespace", d.outcome),
                      Call(n.call, n.outcome)>>, FALSE, FALSE)

\* A row as the create paths insert it: access_url is not set.
NewRow(uid, ns, name, status) ==
    [user_id |-> uid, k8s_namespace |-> ns, k8s_deployment_name |-> name,
     status |-> status, access_url |-> NULL]

\* A create_custom_object call with the custom object handed to it.
CreateCall(body, outcome) ==
    [call |-> "create_custom_object", body |-> body, outcome |-> outcome]

\* metadata.get("namespace", "default")
namespace_of(body) ==
    IF body.namespace = NONE THEN DEFAULT_NAMESPACE ELSE body.namespace

\* The custom object the service submits for a manifest: spec.userName and
\* metadata.name are overwritten from the user.
service_custom_object(user, manifest) ==
    [manifest EXCEPT !.userName = sanitize_for_k8s(user.name, user.id),
                     !.name = env_user_name(user.id)]

\* Step 3 to 5 of create_environment_from_yaml for a user: validate the
\* manifest, overwrite spec.userName and metadata.name, submit the custom
\* object and insert the row.  raised covers every "raise Exception" of the
\* method.  The insert shares the try of the submission: when db.commit()
\* raises, the except rolls the session back and re-raises, and the custom
\* object stays as the cluster took it.
Commits == {"committed", "failed"}

create_environment_from_yaml_persisting(user, manifest, cl, fault, commit) ==
    IF ~is_valid(manifest) THEN Result(NoEnv, cl, <<>>, TRUE, FALSE)
    ELSE
    LET body == service_custom_object(user, manifest)
        cr == create_custom_object(cl, namespace_of(body), body.name, fault)
    IN  IF cr.raised
        THEN Result(NoEnv, cl, <<CreateCall(body, cr.outcome)>>, TRUE, FALSE)
        ELSE IF commit = "failed"
        THEN Result(NoEnv, cr.cluster, <<CreateCall(body, cr.outcome)>>,
                    TRUE, FALSE)
        ELSE Result(NewRow(user.id, namespace_of(body), body.name, "creating"),
                    cr.cluster, <<CreateCall(body, cr.outcome)>>, FALSE, FALSE)

\* The method with a database that takes the insert.
create_environment_from_yaml(user, manifest, cl, fault) ==
    create_environment_from_yaml_persisting(user, manifest, cl, fault,
                                            "committed")

\* ----------------------------------------------------------- handlers
Op(op, e, caller, calls, result) ==
    [op |-> op, env |-> e, caller |-> caller, calls |-> calls,
     result |-> result]

\* A request that carries a manifest keeps it next to its calls.
UploadOp(op, e, user, manifest, calls, result) ==
    [op |-> op, env |-> e, caller |-> user, manifest |-> manifest,
     calls |-> calls, result |-> result]

\* POST /user/user-with-environment: commits a new user, then calls
\* create_environment_from_yaml; any exception becomes a 500.
CreateUserWithEnvironmentPersisting(name, manifest, fault, commit) ==
    /\ next_user_id <= MaxUsers
    /\ next_env_id <= MaxEnvs
    /\ LET user == [id |-> next_user_id, name |-> name]
           r == create_environment_from_yaml_persisting(user, manifest, cluster,
                                                        fault, commit)
       IN  /\ next_user_id' = next_user_id + 1
           /\ cluster' = r.cluster
           /\ IF r.raised
              THEN /\ UNCHANGED <<envs, next_env_id>>
                   /\ lastOp' = UploadOp("create_user_with_environment", 0,
                                         user, manifest, r.calls, "error")
              ELSE /\ envs' = envs @@ (next_env_id :> r.env)
                   /\ next_env_id' = next_env_id + 1
                   /\ lastOp' = UploadOp("create_user_with_environment",
                                         next_env_id, user, manifest,
                                         r.calls, "ok")
           /\ UNCHANGED <<reconcilers, restarting>>

\* The endpoint with a database that takes the environment row.
CreateUserWithEnvironment(name, manifest, fault) ==
    CreateUserWithEnvironmentPersisting(name, manifest, fault, "committed")

\* POST /user/user: only an administrator may call it.  The row is first
\* committed as pending in the namespace user-<id>, then the custom object
\* is created in kubdev-users; a failure there leaves the row in error.
CreateRegularUser(caller, fault) ==
    /\ next_user_id <= MaxUsers
    /\ next_env_id <= MaxEnvs
    /\ IF caller.role # "admin"
       THEN /\ lastOp' = Op("create_regular_user", 0, caller, <<>>, "forbidden")
            /\ UNCHANGED <<envs, next_env_id, next_user_id, cluster, reconcilers,
                           restarting>>
       ELSE LET uid == next_user_id
                pending == NewRow(uid, user_namespace(uid), env_template_name(uid),
                                  "pending")
                cr == create_custom_object(cluster, KUBDEV_USERS,
                                           env_user_name(uid), fault)
                row == IF cr.raised
                       THEN [pending EXCEPT !.status = "error"]
                       ELSE [pending EXCEPT !.k8s_namespace = KUBDEV_USERS,
                                            !.k8s_deployment_name = env_user_name(uid),
                                            !.status = "creating"]
            IN  /\ next_user_id' = uid + 1
                /\ next_env_id' = next_env_id + 1
                /\ envs' = envs @@ (next_env_id :> row)
                /\ cluster' = cr.cluster
                /\ lastOp' = Op("create_regular_user", next_env_id, caller,
                                <<Call("create_custom_object", cr.outcome)>>,
                                "ok")
                /\ UNCHANGED <<reconcilers, restarting>>

\* POST /environments/create-from-yaml: the authenticated user uploads a
\* manifest.  A manifest that fails the CRD check is a 400; spec.userName is
\* overwritten with the user's name and metadata.name is left as uploaded;
\* any failure of the submission or of the commit of the row rolls back and
\* is a 500.
endpoint_custom_object(current_user, manifest) ==
    [manifest EXCEPT !.userName = current_user.name]

CreateFromYamlPersisting(current_user, manifest, fault, commit) ==
    /\ next_env_id <= MaxEnvs
    /\ IF ~is_valid(manifest)
       THEN /\ lastOp' = UploadOp("create_from_yaml", 0, current_user,
                                  manifest, <<>>, "bad_request")
            /\ UNCHANGED <<envs, next_env_id, cluster>>
       ELSE LET body == endpoint_custom_object(current_user, manifest)
                cr == create_custom_object(cluster, namespace_of(body),
                                           body.name, fault)
            IN  /\ cluster' = cr.cluster
                /\ IF cr.raised \/ commit = "failed"
                   THEN /\ lastOp' = UploadOp("create_from_yaml", 0,
                                              current_user, manifest,
                                              <<CreateCall(body, cr.outcome)>>,
                                              "error")
                        /\ UNCHANGED <<envs, next_env_id>>
                   ELSE /\ envs' = envs @@ (next_env_id :>
                                      NewRow(current_user.id, namespace_of(body),
                                             body.name, "creating"))
                        /\ next_env_id' = next_env_id + 1
                        /\ lastOp' = UploadOp("create_from_yaml", next_env_id,
                                              current_user, manifest,
                                              <<CreateCall(body, cr.outcome)>>,
                                              "ok")
    /\ UNCHANGED <<next_user_id, reconcilers, restarting>>

\* The endpoint with a database that takes the environment row.
CreateFromYaml(current_user, manifest, fault) ==
    CreateFromYamlPersisting(current_user, manifest, fault, "committed")

\* GET /user/user-with-environment/stream: commits a new user and, when the
\* mock environment row exists, a row in state running that copies the mock
\* row's namespace and access_url.  No cluster call is made.
CreateStream(mock_env_id) ==
    /\ next_user_id <= MaxUsers
    /\ next_env_id <= MaxEnvs
    /\ next_user_id' = next_user_id + 1
    /\ IF mock_env_id \notin DOMAIN envs
       THEN /\ lastOp' = Op("create_stream", 0, NoCaller, <<>>, "error")
            /\ UNCHANGED <<envs, next_env_id>>
       ELSE LET mock_env == envs[mock_env_id]
                row == [NewRow(next_user_id, mock_env.k8s_namespace,
                               mock_name(next_user_id), "running")
                           EXCEPT !.access_url = mock_env.access_url]
            IN  /\ envs' = envs @@ (next_env_id :> row)
                /\ next_env_id' = next_env_id + 1
                /\ lastOp' = Op("create_stream", next_env_id, NoCaller, <<>>,
                                "completed")
    /\ UNCHANGED <<cluster, reconcilers, restarting>>

\* The row after a commit that also writes status_message.
Commit(env, status, message) ==
    [f \in DOMAIN env \cup {"status_message"} |->
        IF f = "status" THEN status
        ELSE IF f = "status_message" THEN message
        ELSE env[f]]

\* timedelta.seconds: the seconds within the day, whole days dropped.
SECONDS_PER_DAY == 86400
seconds(delta) == delta % SECONDS_PER_DAY

\* _wait_for_deployment_ready(environment_id, max_wait_time=300) sleeps 30
\* seconds between two polls.
max_wait_time == 300
poll_sleep == 30

ReconcilerResult(env, calls, done, result) ==
    [env |-> env, calls |-> calls, done |-> done, result |-> result]

\* The loop of _wait_for_deployment_ready that ends the task whenever the
\* cluster reports the status "Error".
wait_for_deployment_ready_failing_on_error_status(env, elapsed, cl, fault, ready) ==
    IF ~(seconds(elapsed) < max_wait_time)
    THEN ReconcilerResult(
             Commit(env, "error",
                    "Deployment timeout - environment did not become ready"),
             <<>>, TRUE, "timeout")
    ELSE LET st == get_deployment_status(cl, env.k8s_namespace,
                                         env.k8s_deployment_name, fault, ready)
             seen == <<Call("get_deployment_status", st.status)>>
         IN  IF st.status = "Error"
             THEN ReconcilerResult(Commit(env, "error", "Health check failed"),
                                   seen, TRUE, "failed")
             ELSE IF st.ready_replicas >= 1
             THEN ReconcilerResult(
                      Commit(env, "running", "Environment is running and ready"),
                      seen, TRUE, "ready")
             ELSE ReconcilerResult(env, seen, FALSE, "waiting")

\* One pass of the while loop of _wait_for_deployment_ready, elapsed seconds
\* after start_time: the test of the budget, then the poll, then either the
\* commit of running or the sleep.  The while's else commits the timeout.
\* get_deployment_status never raises, so the except branch ("Health check
\* failed") is left to a failing commit, which the model does not have.
wait_for_deployment_ready(env, elapsed, cl, fault, ready) ==
    IF ~(seconds(elapsed) < max_wait_time)
    THEN ReconcilerResult(
             Commit(env, "error",
                    "Deployment timeout - environment did not become ready"),
             <<>>, TRUE, "timeout")
    ELSE LET st == get_deployment_status(cl, env.k8s_namespace,
                                         env.k8s_deployment_name, fault, ready)
             seen == <<Call("get_deployment_status", st.status)>>
         IN  IF st.ready_replicas >= 1
             THEN ReconcilerResult(
                      Commit(env, "running", "Environment is running and ready"),
                      seen, TRUE, "ready")
             ELSE ReconcilerResult(env, seen, FALSE, "waiting")

\* POST /environments/{id}/actions.  The handler takes no principal
\* ("시연용 (인증 없음)"): caller is whoever sent the request and is not read;
\* it is NoCaller where the sender is not followed.
\* A missing row is a 404; an exception of the service is a 500.
environment_action(action, e, caller, r) ==
    IF e \notin DOMAIN envs
    THEN /\ lastOp' = Op(action, e, caller, <<>>, "not_found")
         /\ UNCHANGED <<envs, next_env_id, next_user_id, cluster, reconcilers, restarting>>
    ELSE /\ envs' = IF r.env = NoEnv THEN Remove(envs, e)
                    ELSE [envs EXCEPT ![e] = r.env]
         /\ cluster' = r.cluster
         /\ reconcilers' = IF r.spawned THEN reconcilers @@ (e :> 0)
                                        ELSE reconcilers
         /\ lastOp' = Op(action, e, caller, r.calls,
                         IF r.raised THEN "error" ELSE "ok")
         /\ UNCHANGED <<next_env_id, next_user_id, restarting>>

Start(e, caller, fault, ready) ==
    environment_action("start", e, caller,
                       start_environment(Row(e), cluster, fault, ready))

\* Stop and Delete with the notification hook answering; StopPosting and
\* DeletePosting let the notification end in any way.
StopPosting(e, caller, fault, post) ==
    environment_action("stop", e, caller,
                       stop_environment(Row(e), cluster, fault, post))

Stop(e, caller, fault) == StopPosting(e, caller, fault, "sent")

\* k8s_available is fixed when the service is constructed, so both scale
\* calls of one restart agree on "unavailable".
Restart(e, caller, fault0, fault1) ==
    /\ (fault0 = "unavailable") <=> (fault1 = "unavailable")
    /\ environment_action("restart", e, caller,
                          restart_environment(Row(e), cluster, fault0, fault1))

\* restart_environment as the event loop runs it: the call scales to 0 and
\* suspends in asyncio.sleep(5) without a commit; nothing keeps another
\* request on the same row from being served until it resumes.  At most
\* MaxRestarts calls sleep on one row.
MaxRestarts == 1
Suspended(e) == IF e \in DOMAIN restarting THEN restarting[e] ELSE <<>>

RestartBegin(e, caller, fault0) ==
    /\ Len(Suspended(e)) < MaxRestarts
    /\ IF e \notin DOMAIN envs
       THEN /\ lastOp' = Op("restart", e, caller, <<>>, "not_found")
            /\ UNCHANGED <<cluster, restarting>>
       ELSE LET down == scale_deployment(cluster, envs[e].k8s_namespace,
                                         envs[e].k8s_deployment_name, 0, fault0)
                call == [caller |-> caller,
                         unavailable |-> fault0 = "unavailable"]
            IN  /\ cluster' = down.cluster
                /\ restarting' = [x \in DOMAIN restarting \cup {e} |->
                                     IF x = e THEN Append(Suspended(e), call)
                                     ELSE restarting[x]]
                /\ lastOp' = Op("restart", e, caller,
                                <<ScaleCall(0, down.outcome)>>, "sleeping")
    /\ UNCHANGED <<envs, next_env_id, next_user_id, reconcilers>>

\* The call that has slept longest on row e resumes: it scales to 1 with the
\* namespace and name it loaded and commits running.  When the row is gone
\* the commit raises, and so does the commit of error in the except.
RestartEnd(e, fault1) ==
    /\ Suspended(e) # <<>>
    /\ LET call == Head(restarting[e])
           rest == Tail(restarting[e])
       IN  /\ call.unavailable <=> (fault1 = "unavailable")
           /\ restarting' = IF rest = <<>> THEN Remove(restarting, e)
                            ELSE [restarting EXCEPT ![e] = rest]
           /\ IF e \in DOMAIN envs
              THEN LET up == scale_deployment(cluster, envs[e].k8s_namespace,
                                              envs[e].k8s_deployment_name, 1,
                                              fault1)
                   IN  /\ cluster' = up.cluster
                       /\ envs' = [envs EXCEPT ![e].status = "running"]
                       /\ lastOp' = Op("restart", e, call.caller,
                                       <<ScaleCall(1, up.outcome)>>, "ok")
              ELSE /\ lastOp' = Op("restart", e, call.caller,
                                   <<ScaleCall(1, "not_found")>>, "error")
                   /\ UNCHANGED <<envs, cluster>>
    /\ UNCHANGED <<next_env_id, next_user_id, reconcilers>>

DeletePosting(e, caller, fault, post) ==
    environment_action("delete", e, caller,
                       delete_environment(Row(e), cluster, fault, post))

Delete(e, caller, fault) == DeletePosting(e, caller, fault, "sent")

\* ------------------------------------------------- cluster controller
\* The KubeDevEnvironment controller turns a custom object into a deployment
\* of the same name and namespace with one replica.
ControllerMaterialize(k) ==
    /\ k \in cluster.custom_objects
    /\ k \notin DOMAIN cluster.deployments
    /\ cluster' = [cluster EXCEPT !.deployments = @ @@ (k :> 1)]
    /\ UNCHANGED <<envs, next_env_id, next_user_id, reconcilers, restarting,
                   lastOp>>

\* ------------------------------------------------------ specification
NoOp == Op("none", 0, NoCaller, <<>>, "ok")

Init ==
    /\ envs = [x \in {} |-> NoEnv]
    /\ next_env_id = 1
    /\ next_user_id = 1
    /\ cluster = [namespaces |-> SharedNamespaces,
                  custom_objects |-> {},
                  deployments |-> [x \in {} |-> 0]]
    /\ reconcilers = <<>>
    /\ restarting = <<>>
    /\ lastOp = NoOp

\* The principals that can send a request: the administrator and the users
\* created so far.
Principals == {c \in Callers : c.id < next_user_id}

Create ==
    \/ \E n \in UserNames, m \in Manifests, f \in Faults :
           CreateUserWithEnvironment(n, m, f)
    \/ \E c \in Principals, f \in Faults : CreateRegularUser(c, f)
    \/ \E m \in EnvIds : CreateStream(m)

Controller == \E k \in cluster.custom_objects : ControllerMaterialize(k)

\* The API as it is served: lifecycle requests carry no principal.
Next ==
    \/ Create
    \/ \E e \in EnvIds, f \in Faults, ready \in BOOLEAN :
           Start(e, NoCaller, f, ready)
    \/ \E e \in EnvIds, f \in Faults : Stop(e, NoCaller, f)
    \/ \E e \in EnvIds, f0 \in Faults, f1 \in Faults :
           Restart(e, NoCaller, f0, f1)
    \/ \E e \in EnvIds, f \in Faults : Delete(e, NoCaller, f)
    \/ Controller

Spec == Init /\ [][Next]_vars

\* The same handlers with the sender of each lifecycle request followed.
NextAuth ==
    \/ Create
    \/ \E e \in EnvIds, c \in Principals, f \in Faults, ready \in BOOLEAN :
           Start(e, c, f, ready)
    \/ \E e \in EnvIds, c \in Principals, f \in Faults : Stop(e, c, f)
    \/ \E e \in EnvIds, c \in Principals, f0 \in Faults, f1 \in Faults :
           Restart(e, c, f0, f1)
    \/ \E e \in EnvIds, c \in Principals, f \in Faults : Delete(e, c, f)
    \/ Controller

SpecAuth == Init /\ [][NextAuth]_vars

\* The create paths that take a manifest, with any manifest a caller can
\* upload, next to delete and the controller.
CurrentUsers ==
    {[id |-> c.id, role |-> c.role, name |-> n] :
        c \in Principals, n \in UserNames}

NextCreate ==
    \/ \E n \in UserNames, m \in UploadedManifests, f \in Faults :
           CreateUserWithEnvironment(n, m, f)
    \/ \E u \in CurrentUsers, m \in UploadedManifests, f \in Faults :
           CreateFromYaml(u, m, f)
    \/ \E c \in Principals, f \in Faults : CreateRegularUser(c, f)
    \/ \E e \in EnvIds, f \in Faults : Delete(e, NoCaller, f)
    \/ Controller

SpecCreate == Init /\ [][NextCreate]_vars

\* The two create paths that take a manifest, on their own.
NextUpload ==
    \/ \E n \in UserNames, m \in UploadedManifests, f \in Faults :
           CreateUserWithEnvironment(n, m, f)
    \/ \E u \in CurrentUsers, m \in UploadedManifests, f \in Faults :
           CreateFromYaml(u, m, f)

SpecUpload == Init /\ [][NextUpload]_vars

\* The lifecycle operations that notify, with every way a notification can
\* end, on rows that the create endpoint made.
NextNotify ==
    \/ \E n \in UserNames, m \in Manifests, f \in Faults :
           CreateUserWithEnvironment(n, m, f)
    \/ \E e \in EnvIds, f \in Faults, post \in Posts :
           StopPosting(e, NoCaller, f, post)
    \/ \E e \in EnvIds, f \in Faults, post \in Posts :
           DeletePosting(e, NoCaller, f, post)
    \/ Controller

SpecNotify == Init /\ [][NextNotify]_vars

\* The lifecycle requests as the event loop interleaves them: a restart is
\* two steps with its sleep between them.
NextInterleave ==
    \/ \E n \in UserNames, m \in Manifests, f \in Faults :
           CreateUserWithEnvironment(n, m, f)
    \/ \E e \in EnvIds, f \in Faults, ready \in BOOLEAN :
           Start(e, NoCaller, f, ready)
    \/ \E e \in EnvIds, f \in Faults : Stop(e, NoCaller, f)
    \/ \E e \in EnvIds, f \in Faults : RestartBegin(e, NoCaller, f)
    \/ \E e \in EnvIds, f \in Faults : RestartEnd(e, f)
    \/ \E e \in EnvIds, f \in Faults : Delete(e, NoCaller, f)
    \/ Controller

SpecInterleave == Init /\ [][NextInterleave]_vars

\* The two create paths that take a manifest, with a database whose commit
\* of the environment row can fail, next to the controller.
NextPersist ==
    \/ \E n \in UserNames, m \in Manifests, f \in Faults, c \in Commits :
           CreateUserWithEnvironmentPersisting(n, m, f, c)
    \/ \E u \in CurrentUsers, m \in Manifests, f \in Faults, c \in Commits :
           CreateFromYamlPersisting(u, m, f, c)
    \/ Controller

SpecPersist == Init /\ [][NextPersist]_vars

\* ------------------------------------------------------------ batch
\* BatchUserService.  The single-user creations are gathered as tasks on one
\* session, but none of them reaches a point where it is suspended: the
\* semaphore of 10 is free when a task asks for it, and the KubernetesService
\* methods it awaits call the synchronous client.  Each creation therefore
\* runs from its first statement to its commit or rollback before the next
\* one starts, in the order of the user names.  The service reads User.email
\* and Organization, as the endpoints of admin.py and auth.py do.
MaxBatch == 2
EXPIRY_HOURS == 8

\* The clock, in hours: the start, the hour at which a row made at the start
\* expires, and the hour after.
Hours == {0, EXPIRY_HOURS, EXPIRY_HOURS + 1}

\* f"{prefix}-{str(i).zfill(2)}", f"kubdev-{username}", f"env-{username}"
batch_username(i) == <<"bc", i>>
batch_namespace(username) == <<"kubdev">> \o username
batch_deployment_name(username) == <<"env">> \o username

\* How one creation goes: the user exists already, a statement before the
\* cluster calls fails (a flush, or the read of User.email where the users
\* table has no such column), the commit fails, or the cluster calls meet
\* one of the Faults.
BatchOutcomes == {"exists", "flush_error", "commit_error"} \cup Faults

\* The row with its expires_at.
Expiring(env, expires_at) ==
    [f \in DOMAIN env \cup {"expires_at"} |->
        IF f = "expires_at" THEN expires_at ELSE env[f]]

\* _create_kubernetes_resources: namespace, quota, deployment, service and
\* ingress, of which the cluster model keeps the namespace and the
\* deployment.  It raises what the first failing call raises.
create_kubernetes_resources(cl, ns, name, fault) ==
    LET n == create_namespace(cl, ns, fault)
        d == create_deployment(n.cluster, ns, name, fault)
    IN  IF n.raised THEN n ELSE d

\* The state a batch works on: the committed rows and keys, the cluster, and
\* the two lists of the result.
BatchState(rows, eid, uid, cl, users, failures) ==
    [envs |-> rows, next_env_id |-> eid, next_user_id |-> uid, cluster |-> cl,
     users |-> users, failures |-> failures]

\* The creation that leaves its commit to the creations after it.
create_single_user_internal_without_commit(st, username, outcome, now) ==
    LET ns == batch_namespace(username)
        name == batch_deployment_name(username)
        existing == \E e \in DOMAIN st.envs : st.envs[e].k8s_namespace = ns
        failed == [st EXCEPT !.failures = Append(@, username)]
        k8s == create_kubernetes_resources(
                   st.cluster, ns, name,
                   IF outcome \in Faults THEN outcome ELSE "none")
        pending == Expiring(NewRow(st.next_user_id, ns, name, "pending"),
                            now + EXPIRY_HOURS)
        row == IF k8s.raised THEN [pending EXCEPT !.status = "error"]
               ELSE [pending EXCEPT !.status = "creating", !.access_url = "url"]
    IN  IF existing \/ outcome \in {"exists", "flush_error"} THEN failed
        ELSE IF outcome = "commit_error"
             THEN [failed EXCEPT !.cluster = k8s.cluster]
        ELSE [st EXCEPT
                 !.cluster = k8s.cluster,
                 !.users = Append(@, [username |-> username,
                                      user_id |-> st.next_user_id,
                                      environment_id |-> st.next_env_id,
                                      status |-> row.status])]

\* _create_single_user_internal: the check for the user, the user and the
\* row added and flushed, the cluster resources (a failure there is kept in
\* the row as error), the commit, the result.  Any exception outside of the
\* cluster calls rolls the session back and fails this creation; the keys a
\* rolled back flush had drawn are given out again.
create_single_user_internal(st, username, outcome, now) ==
    LET ns == batch_namespace(username)
        name == batch_deployment_name(username)
        existing == \E e \in DOMAIN st.envs : st.envs[e].k8s_namespace = ns
        failed == [st EXCEPT !.failures = Append(@, username)]
        k8s == create_kubernetes_resources(
                   st.cluster, ns, name,
                   IF outcome \in Faults THEN outcome ELSE "none")
        pending == Expiring(NewRow(st.next_user_id, ns, name, "pending"),
                            now + EXPIRY_HOURS)
        row == IF k8s.raised THEN [pending EXCEPT !.status = "error"]
               ELSE [pending EXCEPT !.status = "creating", !.access_url = "url"]
    IN  IF existing \/ outcome \in {"exists", "flush_error"} THEN failed
        ELSE IF outcome = "commit_error"
             THEN [failed EXCEPT !.cluster = k8s.cluster]
        ELSE [st EXCEPT
                 !.envs = @ @@ (st.next_env_id :> row),
                 !.next_env_id = @ + 1,
                 !.next_user_id = @ + 1,
                 !.cluster = k8s.cluster,
                 !.users = Append(@, [username |-> username,
                                      user_id |-> st.next_user_id,
                                      environment_id |-> st.next_env_id,
                                      status |-> row.status])]

\* create_batch_users: the creations of prefix-01 .. prefix-count, gathered.
RECURSIVE create_batch_users(_, _, _, _)
create_batch_users(st, count, outcomes, now) ==
    IF count = 0 THEN st
    ELSE create_single_user_internal(
             create_batch_users(st, count - 1, outcomes, now),
             batch_username(count), outcomes[count], now)

BatchOp(result, count, users, failures) ==
    [op |-> "create_batch_users", env |-> 0, caller |-> NoCaller,
     calls |-> <<>>, result |-> result, total_requested |-> count,
     users |-> users, failures |-> failures]

\* POST /admin/users/batch.  A missing template is a 404 of the endpoint, a
\* missing organization a ValueError of the service and so a 500.
CreateBatchUsers(count, outcomes, template_found, organization_found, now) ==
    /\ next_user_id + count <= MaxUsers + 1
    /\ next_env_id + count <= MaxEnvs + 1
    /\ IF ~template_found \/ ~organization_found
       THEN /\ lastOp' = BatchOp(IF template_found THEN "error" ELSE "not_found",
                                 count, <<>>, <<>>)
            /\ UNCHANGED <<envs, next_env_id, next_user_id, cluster>>
       ELSE LET st == create_batch_users(
                          BatchState(envs, next_env_id, next_user_id, cluster,
                                     <<>>, <<>>),
                          count, outcomes, now)
            IN  /\ envs' = st.envs
                /\ next_env_id' = st.next_env_id
                /\ next_user_id' = st.next_user_id
                /\ cluster' = st.cluster
                /\ lastOp' = BatchOp("completed", count, st.users, st.failures)
    /\ UNCHANGED <<reconcilers, restarting>>

Batch ==
    \E count \in 1..MaxBatch, template_found \in BOOLEAN,
       organization_found \in BOOLEAN, now \in Hours :
        \E outcomes \in [1..count -> BatchOutcomes] :
            CreateBatchUsers(count, outcomes, template_found,
                             organization_found, now)

NextBatch == Batch

SpecBatch == Init /\ [][NextBatch]_vars

\* ----------------------------------------------------------- expiry
\* POST /admin/cleanup/expired.  The query compares the status column, an
\* Enum stored by member name, with the strings 'running' and 'stopped', and
\* the loop reads env.user.email.  What the database and the users table
\* make of that is not settled by the code:
\*   "matched"    the strings select the rows in running and stopped
\*   "unmatched"  the strings select no row
\*   "raised"     the query or the read of the email raises, a 500
Selections == {"matched", "unmatched", "raised"}

\* expires_at < utcnow() and status in running, stopped; a row without
\* expires_at is not selected.
expired_environments(rows, now) ==
    {e \in DOMAIN rows :
        /\ "expires_at" \in DOMAIN rows[e]
        /\ rows[e].expires_at < now
        /\ rows[e].status \in {"running", "stopped"}}

\* The loop over the selected rows, lowest id first: each is handed to
\* delete_environment, whose exception is kept in the result of that row.
RECURSIVE cleanup_loop(_, _, _, _, _)
cleanup_loop(ids, rows, cl, fault, post) ==
    IF ids = {} THEN [envs |-> rows, cluster |-> cl, results |-> <<>>]
    ELSE LET e == CHOOSE x \in ids : \A y \in ids : x <= y
             d == delete_environment(rows[e], cl, fault, post)
             rest == cleanup_loop(ids \ {e},
                                  IF d.raised THEN rows ELSE Remove(rows, e),
                                  d.cluster, fault, post)
         IN  [rest EXCEPT !.results =
                 <<[environment_id |-> e,
                    status |-> IF d.raised THEN "failed" ELSE "success"]>> \o @]

CleanupOp(result, dry_run, now, results) ==
    [op |-> "cleanup_expired", env |-> 0, caller |-> NoCaller, calls |-> <<>>,
     result |-> result, dry_run |-> dry_run, now |-> now, results |-> results]

CleanupExpiredEnvironments(dry_run, now, selection, fault, post) ==
    LET ids == IF selection = "matched" THEN expired_environments(envs, now)
               ELSE {}
        done == cleanup_loop(ids, envs, cluster, fault, post)
    IN  /\ IF selection = "raised"
           THEN /\ lastOp' = CleanupOp("error", dry_run, now, <<>>)
                /\ UNCHANGED <<envs, cluster>>
           ELSE IF dry_run
           THEN /\ lastOp' = CleanupOp("ok", dry_run, now,
                                       [i \in 1..Cardinality(ids) |-> "would_delete"])
                /\ UNCHANGED <<envs, cluster>>
           ELSE /\ envs' = done.envs
                /\ cluster' = done.cluster
                /\ lastOp' = CleanupOp("ok", dry_run, now, done.results)
        /\ UNCHANGED <<next_env_id, next_user_id, reconcilers, restarting>>

\* The cleanup next to the batch creation, whose rows expire, and the start
\* and stop that bring them to running and stopped.  The notification hook
\* answers; a fault of the cluster matters where rows are deleted.
NextExpiry ==
    \/ Batch
    \/ \E e \in EnvIds, f \in Faults, ready \in BOOLEAN :
           Start(e, NoCaller, f, ready)
    \/ \E e \in EnvIds, f \in Faults : Stop(e, NoCaller, f)
    \/ \E dry_run \in BOOLEAN, now \in Hours, selection \in Selections :
           \E f \in IF selection = "matched" /\ ~dry_run THEN Faults
                     ELSE {"none"} :
               CleanupExpiredEnvironments(dry_run, now, selection, f, "sent")

SpecExpiry == Init /\ [][NextExpiry]_vars

\* ----------------------------------------------------------- stream
\* event_generator of create_user_with_environment_stream, as the list of
\* the status of every event it yields.  Its inputs: whether ten access
\* codes in a row were taken, whether the template row and the mock row
\* exist, the mock row's git_repository, and the database statement that
\* raises, if one does.  The except branch yields one error event.
Statements ==
    {"none", "query_access_code", "commit_user", "query_template",
     "query_mock_env", "commit_env"}
GitRepositories == {NULL, "django", "react", "other"}

git_events(git_repository) ==
    IF git_repository # NULL THEN <<"cloning_git", "git_cloned">>
    ELSE <<"setup_workspace", "workspace_ready">>

deps_events(git_repository) ==
    IF git_repository \in {"django", "react"}
    THEN <<"installing_deps", "deps_installed">>
    ELSE <<"preparing">>

\* The generator without the return after the missing template's error.
event_generator_without_return(codes_taken, template_found, mock_found, git_repository, raises) ==
    LET user_creating == <<"user_creating">>
        loading == user_creating \o <<"user_created", "loading_template">>
        missing == IF template_found THEN <<>> ELSE <<"error">>
        allocating == loading \o missing \o <<"template_loaded", "allocating_env">>
        started == allocating \o <<"env_allocated">>
                       \o git_events(git_repository)
                       \o deps_events(git_repository)
                       \o <<"starting_vscode", "vscode_started">>
    IN  IF raises = "query_access_code" THEN user_creating \o <<"error">>
        ELSE IF codes_taken THEN user_creating \o <<"error">>
        ELSE IF raises = "commit_user" THEN user_creating \o <<"error">>
        ELSE IF raises = "query_template" THEN loading \o <<"error">>
        ELSE IF raises = "query_mock_env" THEN allocating \o <<"error">>
        ELSE IF ~mock_found THEN allocating \o <<"error">>
        ELSE IF raises = "commit_env" THEN started \o <<"error">>
        ELSE started \o <<"completed">>

event_generator(codes_taken, template_found, mock_found, git_repository, raises) ==
    LET user_creating == <<"user_creating">>
        loading == user_creating \o <<"user_created", "loading_template">>
        allocating == loading \o <<"template_loaded", "allocating_env">>
        started == allocating \o <<"env_allocated">>
                       \o git_events(git_repository)
                       \o deps_events(git_repository)
                       \o <<"starting_vscode", "vscode_started">>
    IN  IF raises = "query_access_code" THEN user_creating \o <<"error">>
        ELSE IF codes_taken THEN user_creating \o <<"error">>
        ELSE IF raises = "commit_user" THEN user_creating \o <<"error">>
        ELSE IF raises = "query_template" THEN loading \o <<"error">>
        ELSE IF ~template_found THEN loading \o <<"error">>
        ELSE IF raises = "query_mock_env" THEN allocating \o <<"error">>
        ELSE IF ~mock_found THEN allocating \o <<"error">>
        ELSE IF raises = "commit_env" THEN started \o <<"error">>
        ELSE started \o <<"completed">>

StreamOp(e, events) ==
    [op |-> "create_stream", env |-> e, caller |-> NoCaller, calls |-> <<>>,
     events |-> events, result |-> events[Len(events)]]

\* One run of the stream endpoint to its end, with the events it sent.  The
\* user row is committed once user_created has been sent, the environment
\* row with the last event of a completed run.
CreateStreamRun(mock_env_id, codes_taken, template_found, git_repository, raises) ==
    /\ next_user_id <= MaxUsers
    /\ next_env_id <= MaxEnvs
    /\ LET events == event_generator(codes_taken, template_found,
                                     mock_env_id \in DOMAIN envs,
                                     git_repository, raises)
           completed == events[Len(events)] = "completed"
           row == [NewRow(next_user_id, envs[mock_env_id].k8s_namespace,
                          mock_name(next_user_id), "running")
                      EXCEPT !.access_url = envs[mock_env_id].access_url]
       IN  /\ next_user_id' = IF Len(events) > 2 THEN next_user_id + 1
                               ELSE next_user_id
           /\ envs' = IF completed THEN envs @@ (next_env_id :> row) ELSE envs
           /\ next_env_id' = IF completed THEN next_env_id + 1 ELSE next_env_id
           /\ lastOp' = StreamOp(IF completed THEN next_env_id ELSE 0, events)
    /\ UNCHANGED <<cluster, reconcilers, restarting>>

\* The stream endpoint next to the endpoint that creates the rows it copies.
NextStream ==
    \/ \E n \in UserNames, m \in Manifests, f \in Faults :
           CreateUserWithEnvironment(n, m, f)
    \/ \E m \in EnvIds, codes_taken \in BOOLEAN, template_found \in BOOLEAN,
          g \in GitRepositories, raises \in Statements :
           CreateStreamRun(m, codes_taken, template_found, g, raises)

SpecStream == Init /\ [][NextStream]_vars

\* ------------------------------------------------------- reconciler
\* The task that deploy_environment spawns, on its own: the row and the
\* cluster are as deploy_environment left them, and the clock has just been
\* read into start_time.  Between the budget test of one pass and that of the
\* next lie the poll, which takes up to MaxLatency seconds, and the sleep.
MaxLatency == 1
Latencies == 0..MaxLatency

WaitForDeploymentReady(e, fault, ready, latency) ==
    /\ e \in DOMAIN reconcilers
    /\ IF e \notin DOMAIN envs
       THEN /\ reconcilers' = Remove(reconcilers, e)
            /\ lastOp' = Op("wait_for_deployment_ready", e, NoCaller, <<>>,
                            "not_found")
            /\ UNCHANGED envs
       ELSE LET r == wait_for_deployment_ready(envs[e], reconcilers[e],
                                               cluster, fault, ready)
            IN  /\ envs' = [envs EXCEPT ![e] = r.env]
                /\ reconcilers' =
                       IF r.done THEN Remove(reconcilers, e)
                       ELSE [reconcilers EXCEPT ![e] = @ + latency + poll_sleep]
                /\ lastOp' = Op("wait_for_deployment_ready", e, NoCaller,
                                r.calls, r.result)
    /\ UNCHANGED <<next_env_id, next_user_id, cluster, restarting>>

InitReconciler ==
    \E e \in EnvIds :
        LET d == deploy_environment(
                     NewRow(e, user_namespace(e), mock_name(e), "pending"),
                     [namespaces |-> SharedNamespaces,
                      custom_objects |-> {},
                      deployments |-> [x \in {} |-> 0]],
                     "none")
        IN  /\ envs = (e :> d.env)
            /\ next_env_id = e + 1
            /\ next_user_id = e + 1
            /\ cluster = d.cluster
            /\ reconcilers = (e :> 0)
            /\ restarting = <<>>
            /\ lastOp = Op("deploy", e, NoCaller, d.calls, "ok")

NextReconciler ==
    \E e \in EnvIds, f \in Faults, ready \in BOOLEAN, latency \in Latencies :
        WaitForDeploymentReady(e, f, ready, latency)

\* The event loop runs every task that is ready to run, and a sleep ends.
SpecReconciler ==
    InitReconciler /\ [][NextReconciler]_vars /\ WF_vars(NextReconciler)

\* The task next to the lifecycle requests that can reach its row while it
\* sleeps: create_task returns at once, and every asyncio.sleep(30) of the
\* task lets the event loop serve other requests.
NextOverride ==
    \/ NextReconciler
    \/ \E e \in EnvIds, f \in Faults : Stop(e, NoCaller, f)
    \/ \E e \in EnvIds, f \in Faults : Delete(e, NoCaller, f)

SpecOverride == InitReconciler /\ [][NextOverride]_vars

\* -------------------------------------------------- sanitizer inputs
\* The names given to the sanitizers: a run of "a" of a length around the
\* limit, or no run, after one character or none and before a short suffix
\* over SanitizerAlphabet.
MaxAffix == 2
SanitizerAlphabet == {"a", "Z", "7", "-", " ", "_", "U+00E9", "U+D55C"}
RECURSIVE Affixes(_)
Affixes(n) ==
    IF n = 0 THEN {<<>>}
    ELSE Affixes(n - 1)
         \cup {<<c>> \o a : c \in SanitizerAlphabet, a \in Affixes(n - 1)}
RECURSIVE Repeat(_, _)
Repeat(c, n) == IF n = 0 THEN <<>> ELSE <<c>> \o Repeat(c, n - 1)
RunLengths == {0, K8S_NAME_MAX - 2, K8S_NAME_MAX - 1, K8S_NAME_MAX}
SanitizerInputs ==
    {pre \o Repeat("a", n) \o suf :
        pre \in Affixes(1), n \in RunLengths, suf \in Affixes(MaxAffix)}

Sanitized(op, input, output) == [op |-> op, input |-> input, output |-> output]

SanitizeNameForK8s ==
    /\ lastOp.op = "name"
    /\ lastOp' = Sanitized("sanitize_name_for_k8s", lastOp.input,
                           sanitize_name_for_k8s(lastOp.input))
    /\ UNCHANGED <<envs, next_env_id, next_user_id, cluster, reconcilers, restarting>>

SanitizeForK8s(uid) ==
    /\ lastOp.op = "name"
    /\ lastOp' = Sanitized("sanitize_for_k8s", lastOp.input,
                           sanitize_for_k8s(lastOp.input, uid))
    /\ UNCHANGED <<envs, next_env_id, next_user_id, cluster, reconcilers, restarting>>

InitSanitize ==
    /\ envs = [x \in {} |-> NoEnv]
    /\ next_env_id = 1
    /\ next_user_id = 1
    /\ cluster = [namespaces |-> SharedNamespaces,
                  custom_objects |-> {},
                  deployments |-> [x \in {} |-> 0]]
    /\ reconcilers = <<>>
    /\ restarting = <<>>
    /\ lastOp \in {[op |-> "name", input |-> name] : name \in SanitizerInputs}

NextSanitize ==
    \/ SanitizeNameForK8s
    \/ \E uid \in UserIds : SanitizeForK8s(uid)

SpecSanitize == InitSanitize /\ [][NextSanitize]_vars

\* ------------------------------------------------------------ properties
\* A step of the named lifecycle operation on the row e, whoever sent it.
AnyCaller == Callers \cup {NoCaller}

StartStep(e) ==
    \E c \in AnyCaller, f \in Faults, ready \in BOOLEAN : Start(e, c, f, ready)

StopStep(e) == \E c \in AnyCaller, f \in Faults : Stop(e, c, f)

RestartStep(e) ==
    \E c \in AnyCaller, f0 \in Faults, f1 \in Faults : Restart(e, c, f0, f1)

DeleteStep(e) == \E c \in AnyCaller, f \in Faults : Delete(e, c, f)

LifecycleStepBy(e, c) ==
    \/ \E f \in Faults, ready \in BOOLEAN : Start(e, c, f, ready)
    \/ \E f \in Faults : Stop(e, c, f)
    \/ \E f0 \in Faults, f1 \in Faults : Restart(e, c, f0, f1)
    \/ \E f \in Faults : Delete(e, c, f)

\* The scale_deployment calls of a call log that ask for the given replicas.
ScaleCalls(calls, replicas) ==
    {i \in DOMAIN calls : /\ calls[i].call = "scale_deployment"
                          /\ calls[i].replicas = replicas}

\* C1: in every reachable state every environment row whose status is
\* running has an access_url that is not null.
C1_RunningHasAccessUrl ==
    \A e \in DOMAIN envs :
        envs[e].status = "running" => envs[e].access_url # NULL

\* C2: a lifecycle operation sent by a principal who is neither the owner of
\* the row nor an administrator answers forbidden, makes no cluster call and
\* leaves the row unchanged.
C2_StrangerIsForbidden ==
    [][\A e \in DOMAIN envs, c \in Callers :
          (/\ c.role # "admin"
           /\ c.id # envs[e].user_id
           /\ LifecycleStepBy(e, c))
          => /\ lastOp'.result = "forbidden"
             /\ lastOp'.calls = <<>>
             /\ cluster' = cluster
             /\ envs' = envs]_vars

\* C3: stop and restart act only on a running row and start scales up only
\* a stopped row (start on a running row being the no-op of C6); in any other
\* state the operation answers precondition_failed and the row keeps its status.
C3_AllowedPredecessors ==
    [][\A e \in DOMAIN envs :
          (\/ StopStep(e) /\ envs[e].status # "running"
           \/ RestartStep(e) /\ envs[e].status # "running"
           \/ StartStep(e) /\ envs[e].status \notin {"stopped", "running"})
          => /\ lastOp'.result = "precondition_failed"
             /\ envs' = envs]_vars

\* C4: a stop turns a row to stopped only when its scale_deployment(.., 0)
\* succeeded or found no deployment; a scale call that failed because the
\* cluster is unavailable does not set the row to stopped.
C4_StoppedOnlyAfterScaleDown ==
    [][\A e \in DOMAIN envs :
          (StopStep(e) /\ envs[e].status # "stopped"
                       /\ envs'[e].status = "stopped")
          => /\ ScaleCalls(lastOp'.calls, 0) = {1}
             /\ lastOp'.calls[1].outcome \in {"ok", "not_found"}]_vars

\* C5: start on a stopped row issues exactly one scale_deployment(.., 1) and,
\* when that call succeeds, leaves the row in creating with its reconciler
\* spawned; the start itself never sets the row to running.
C5_StartScalesUpToCreating ==
    [][\A e \in DOMAIN envs :
          (StartStep(e) /\ envs[e].status = "stopped")
          => /\ Cardinality(ScaleCalls(lastOp'.calls, 1)) = 1
             /\ envs'[e].status # "running"
             /\ (\A i \in ScaleCalls(lastOp'.calls, 1) :
                    lastOp'.calls[i].outcome = "ok"
                    => envs'[e].status = "creating"
                       /\ e \in DOMAIN reconcilers')]_vars

\* C6: start on a row that is already running makes no cluster call, leaves
\* every field of the row and the cluster as they were, and answers ok.
C6_StartOnRunningIsNoOp ==
    [][\A e \in DOMAIN envs :
          (/\ envs[e].status = "running"
           /\ lastOp'.op = "start"
           /\ lastOp'.env = e
           /\ StartStep(e))
          => /\ lastOp'.calls = <<>>
             /\ lastOp'.result = "ok"
             /\ envs' = envs
             /\ cluster' = cluster
             /\ reconcilers' = reconcilers]_vars

\* A start has just answered ok on a running row without any call: only the
\* early return of start_environment leaves an empty call log.
C6_Witness ==
    /\ lastOp.op = "start"
    /\ lastOp.result = "ok"
    /\ lastOp.calls = <<>>
    /\ lastOp.env \in DOMAIN envs
    /\ envs[lastOp.env].status = "running"

\* C7: a restart calls scale_deployment(.., 0) and then scale_deployment(.., 1),
\* in that order, and when the second call fails the row is in error, never
\* running.
C7_RestartFailureMarksError ==
    (lastOp.op = "restart" /\ lastOp.result # "not_found")
    => /\ Len(lastOp.calls) = 2
       /\ ScaleCalls(lastOp.calls, 0) = {1}
       /\ ScaleCalls(lastOp.calls, 1) = {2}
       /\ lastOp.calls[2].outcome # "ok"
          => /\ lastOp.env \in DOMAIN envs
             /\ envs[lastOp.env].status = "error"

\* C8: a delete removes the row only when delete_namespace answered ok or
\* not_found and the notification was attempted; after any other answer the
\* row is still stored and the delete answers with an error.
C8_DeleteKeepsRowOnFailure ==
    (lastOp.op = "delete" /\ lastOp.result # "not_found")
    => /\ lastOp.calls[1].call = "delete_namespace"
       /\ lastOp.env \notin DOMAIN envs
          => /\ lastOp.calls[1].outcome \in {"ok", "not_found"}
             /\ Len(lastOp.calls) = 2
             /\ lastOp.calls[2].call = "send_slack_notification"
       /\ lastOp.calls[1].outcome \notin {"ok", "not_found"}
          => /\ lastOp.env \in DOMAIN envs
             /\ lastOp.result = "error"

\* The custom object and the deployment of a row are both in the cluster.
HasClusterResources(cl, row) ==
    /\ Key(row.k8s_namespace, row.k8s_deployment_name) \in cl.custom_objects
    /\ Key(row.k8s_namespace, row.k8s_deployment_name) \in DOMAIN cl.deployments

\* C9: a delete of one row removes at most that row's own custom object, and
\* every other running row that had its custom object and deployment in the
\* cluster still has them afterwards.
C9_DeleteSparesOtherEnvironments ==
    [][\A e \in DOMAIN envs :
          DeleteStep(e)
          => /\ cluster.custom_objects
                   \ {Key(envs[e].k8s_namespace, envs[e].k8s_deployment_name)}
                \subseteq cluster'.custom_objects
             /\ \A o \in DOMAIN envs \ {e} :
                   (envs[o].status = "running"
                    /\ HasClusterResources(cluster, envs[o]))
                   => HasClusterResources(cluster', envs[o])]_vars

\* C10: a delete whose delete_namespace found the namespace already missing
\* answers ok and the row is gone; a delete sent again for a row that an
\* earlier delete removed finds no row, so no row is left behind.
C10_DeleteOfMissingNamespaceSucceeds ==
    /\ (/\ lastOp.op = "delete"
        /\ lastOp.calls # <<>>
        /\ lastOp.calls[1].outcome = "not_found")
       => (lastOp.result = "ok" /\ lastOp.env \notin DOMAIN envs)
    /\ (lastOp.op = "delete" /\ lastOp.result \in {"ok", "not_found"})
       => lastOp.env \notin DOMAIN envs

\* A delete has just been answered not_found by the cluster.
C10_Witness ==
    /\ lastOp.op = "delete"
    /\ lastOp.calls # <<>>
    /\ lastOp.calls[1].outcome = "not_found"
    /\ lastOp.result = "ok"

\* C11: a delete that answers ok on a row whose custom object was in the
\* cluster leaves the state as it was before the create: the row is gone, no
\* custom object of its name is left in its namespace, and the namespace is
\* still there to take the next create.
C11_CreateDeleteRoundTrip ==
    [][\A e \in DOMAIN envs :
          (/\ lastOp'.op = "delete"
           /\ lastOp'.env = e
           /\ lastOp'.result = "ok"
           /\ Key(envs[e].k8s_namespace, envs[e].k8s_deployment_name)
                 \in cluster.custom_objects
           /\ DeleteStep(e))
          => /\ e \notin DOMAIN envs'
             /\ Key(envs[e].k8s_namespace, envs[e].k8s_deployment_name)
                   \notin cluster'.custom_objects
             /\ envs[e].k8s_namespace \in cluster'.namespaces]_vars

\* RFC 1123 label: ^[a-z0-9]([-a-z0-9]*[a-z0-9])?$
IsRfc1123Label(name) ==
    /\ name # <<>>
    /\ \A i \in DOMAIN name : IsNameChar(name[i])
    /\ name[1] # "-"
    /\ name[Len(name)] # "-"

\* C20: whatever name goes in, each sanitizer returns an RFC 1123 label of
\* at most 63 characters; the result never ends with a hyphen.
C20_SanitizedNameIsLabel ==
    lastOp.op \in {"sanitize_name_for_k8s", "sanitize_for_k8s"}
    => /\ IsRfc1123Label(lastOp.output)
       /\ Len(lastOp.output) <= K8S_NAME_MAX

\* The create operations that take a manifest.
ManifestCreates == {"create_user_with_environment", "create_from_yaml"}

\* A manifest the spec wants turned down: not a mapping, or not of the CRD's
\* apiVersion and kind.
IsForeign(manifest) ==
    \/ ~manifest.mapping
    \/ manifest.apiVersion # "kubedev.my-project.com/v1alpha1"
    \/ manifest.kind # "KubeDevEnvironment"

\* C19: a manifest that is not a mapping, or whose apiVersion or kind is not
\* the CRD's, is rejected before any cluster call: the request fails, no
\* custom object is submitted and no row is written.
C19_InvalidManifestRejected ==
    (lastOp.op \in ManifestCreates /\ IsForeign(lastOp.manifest))
    => /\ lastOp.calls = <<>>
       /\ lastOp.result \in {"bad_request", "error"}
       /\ lastOp.env = 0
       /\ \A e \in DOMAIN envs : e < next_env_id

\* An invalid manifest has just been turned down by the endpoint.
C19_Witness ==
    /\ lastOp.op = "create_from_yaml"
    /\ IsForeign(lastOp.manifest)
    /\ lastOp.result = "bad_request"

\* The create operations, and the first cluster call of the last request.
CreateOps == ManifestCreates \cup {"create_regular_user"}

Submitted(outcome) ==
    /\ lastOp.op \in CreateOps
    /\ lastOp.calls # <<>>
    /\ lastOp.calls[1].call = "create_custom_object"
    /\ lastOp.calls[1].outcome = outcome

\* No two rows name the same custom object.
OneRowPerCustomObject ==
    \A e1, e2 \in DOMAIN envs :
        (/\ envs[e1].k8s_namespace = envs[e2].k8s_namespace
         /\ envs[e1].k8s_deployment_name = envs[e2].k8s_deployment_name)
        => e1 = e2

\* C12: at most one row exists per custom object name and namespace; a
\* create whose custom object already exists is answered AlreadyExists by
\* the cluster, fails with a conflict and writes no second row.
C12_SecondCreateIsConflict ==
    /\ OneRowPerCustomObject
    /\ Submitted("already_exists")
       => /\ lastOp.result = "conflict"
          /\ lastOp.env = 0

\* C13: a create whose custom object submission finds the cluster unavailable
\* leaves its row in error, not in pending or creating.
C13_UnavailableLeavesErrorRow ==
    Submitted("unavailable")
    => /\ lastOp.env \in DOMAIN envs
       /\ envs[lastOp.env].status = "error"

\* C14: after a create whose custom object was accepted, the row is creating
\* and its reconciler task has been spawned.
C14_CreateSpawnsReconciler ==
    Submitted("ok")
    => /\ lastOp.env \in DOMAIN envs
       /\ envs[lastOp.env].status = "creating"
       /\ lastOp.env \in DOMAIN reconcilers

\* C15: a step that commits running for a row has asked the cluster for the
\* deployment's status in that same request and has resolved the access_url.
C15_RunningOnlyAfterReady ==
    [][\A e \in EnvIds :
          (/\ e \in DOMAIN envs'
           /\ envs'[e].status = "running"
           /\ (e \in DOMAIN envs => envs[e].status # "running"))
          => /\ \E i \in DOMAIN lastOp'.calls :
                    lastOp'.calls[i].call = "get_deployment_status"
             /\ envs'[e].access_url # NULL]_vars

\* The last request took a manifest and its custom object went out to the
\* API server (create_custom_object got past its own checks).
SentManifest ==
    /\ lastOp.op \in ManifestCreates
    /\ lastOp.calls # <<>>
    /\ lastOp.calls[1].outcome \notin {"unavailable", "value_error"}

\* C17: the spec.userName of every custom object submitted for a manifest is
\* the sanitized name of the user the request is made for, whatever the
\* manifest says.
C17_UserNameIsSanitizedPrincipal ==
    SentManifest
    => lastOp.calls[1].body.userName
           = sanitize_for_k8s(lastOp.caller.name, lastOp.caller.id)

\* C18: the metadata.name of every custom object submitted for a manifest,
\* and the name kept in the row, is env-user-<owner id>.
C18_NameIsEnvUserOwner ==
    SentManifest
    => /\ lastOp.calls[1].body.name = env_user_name(lastOp.caller.id)
       /\ lastOp.env \in DOMAIN envs
          => envs[lastOp.env].k8s_deployment_name
                 = env_user_name(envs[lastOp.env].user_id)

\* What the task of row e does in a step that ends it.
EndsTask(e) == e \in DOMAIN reconcilers /\ e \notin DOMAIN reconcilers'

Normalize(manifest, user) ==
    IF is_valid(manifest) THEN service_custom_object(user, manifest) ELSE NONE

\* C21: normalizing a normalized manifest for the same principal changes
\* nothing, and each sanitizer returns an already sanitized name unchanged.
C21_NormalizationIsIdempotent ==
    lastOp.op \in {"sanitize_name_for_k8s", "sanitize_for_k8s"}
    => /\ \A uid \in UserIds, m \in UploadedManifests :
              LET p == [id |-> uid, name |-> lastOp.input]
              IN  is_valid(m)
                  => Normalize(Normalize(m, p), p) = Normalize(m, p)
       /\ lastOp.op = "sanitize_name_for_k8s"
          => sanitize_name_for_k8s(lastOp.output) = lastOp.output
       /\ lastOp.op = "sanitize_for_k8s"
          => \A uid \in UserIds :
                 sanitize_for_k8s(lastOp.output, uid) = lastOp.output

\* The events that end a stream.
TerminalEvents == {"completed", "timeout", "error"}

\* C22: a run of the stream endpoint sends exactly one terminal event, and
\* it is the last event sent.
C22_OneTerminalEventLast ==
    (lastOp.op = "create_stream" /\ "events" \in DOMAIN lastOp)
    => /\ lastOp.events # <<>>
       /\ \A i \in DOMAIN lastOp.events :
              lastOp.events[i] \in TerminalEvents <=> i = Len(lastOp.events)

\* A run has ended on the missing template: the user was created, the
\* template was looked up, and the one error closed the stream.
C22_Witness ==
    /\ lastOp.op = "create_stream"
    /\ "events" \in DOMAIN lastOp
    /\ lastOp.events = <<"user_creating", "user_created", "loading_template",
                         "error">>

\* The notifications among the calls of a request.
Notifications(calls) ==
    {i \in DOMAIN calls : calls[i].call = "send_slack_notification"}

\* C23: every step that moves a row to running or to stopped, and every step
\* that removes a row, posts exactly one notification.
C23_TransitionsNotify ==
    [][\A e \in EnvIds :
          (\/ /\ e \in DOMAIN envs'
              /\ envs'[e].status \in {"running", "stopped"}
              /\ (e \in DOMAIN envs => envs[e].status # envs'[e].status)
           \/ e \in DOMAIN envs /\ e \notin DOMAIN envs')
          => Cardinality(Notifications(lastOp'.calls)) = 1]_vars

\* The ways a notification fails.
FailedPosts == {"request_error", "status_error", "raised"}

\* C24: a stop or delete whose notification failed has the outcome it has
\* without the failure: the stop answers ok and the row is stopped, the
\* delete answers ok and the row is gone.
C24_FailedNotificationIsHarmless ==
    \A i \in Notifications(lastOp.calls) :
        lastOp.calls[i].outcome \in FailedPosts
        => /\ lastOp.result = "ok"
           /\ lastOp.op = "stop"
              => /\ lastOp.env \in DOMAIN envs
                 /\ envs[lastOp.env].status = "stopped"
           /\ lastOp.op = "delete" => lastOp.env \notin DOMAIN envs

\* A stop has just ended whose notification raised.
C24_Witness ==
    /\ lastOp.op = "stop"
    /\ \E i \in Notifications(lastOp.calls) : lastOp.calls[i].outcome = "raised"
    /\ lastOp.env \in DOMAIN envs
    /\ envs[lastOp.env].status = "stopped"

\* C30: in the result of a batch creation every user listed has a stored
\* user and a stored environment row of their own, whatever became of the
\* other creations, and the users and the failures together are as many as
\* were requested.
C30_BatchResultIsPersisted ==
    (lastOp.op = "create_batch_users" /\ lastOp.result = "completed")
    => /\ Len(lastOp.users) + Len(lastOp.failures) = lastOp.total_requested
       /\ \A i \in DOMAIN lastOp.users :
              LET u == lastOp.users[i]
              IN  /\ u.user_id < next_user_id
                  /\ u.environment_id \in DOMAIN envs
                  /\ envs[u.environment_id].user_id = u.user_id
                  /\ envs[u.environment_id].k8s_namespace
                         = batch_namespace(u.username)

\* A batch in which the first creation was committed and the second one
\* failed and rolled the session back.
C30_Witness ==
    /\ lastOp.op = "create_batch_users"
    /\ Len(lastOp.users) = 1
    /\ lastOp.users[1].username = batch_username(1)
    /\ lastOp.failures = <<batch_username(2)>>

\* C25: a cleanup moves every row that is running or stopped and whose
\* expires_at is not after the cleanup's clock to expired and keeps it; it
\* removes no row and leaves every other row as it was.
C25_ExpiryRetainsRecord ==
    [][(lastOp'.op = "cleanup_expired" /\ ~lastOp'.dry_run)
       => \A e \in DOMAIN envs :
              /\ e \in DOMAIN envs'
              /\ IF /\ envs[e].status \in {"running", "stopped"}
                    /\ lastOp'.now >= envs[e].expires_at
                 THEN envs'[e].status = "expired"
                 ELSE envs'[e] = envs[e]]_vars

\* C28: a Start that found the row not running and whose deployment does not
\* exist goes through deploy_environment (its first call is create_namespace);
\* it never leaves the row running without a workload.
C28_StartRedeploysMissingWorkload ==
    (/\ lastOp.op = "start"
     /\ lastOp.calls # <<>>
     /\ lastOp.env \in DOMAIN envs
     /\ Key(envs[lastOp.env].k8s_namespace,
            envs[lastOp.env].k8s_deployment_name) \notin DOMAIN cluster.deployments)
    => /\ \E i \in DOMAIN lastOp.calls : lastOp.calls[i].call = "create_namespace"
       /\ envs[lastOp.env].status # "running"

\* C27: once a create has returned, every custom object it submitted has a
\* row that names it, also when the create failed: a custom object whose row
\* could not be persisted is removed again.
C27_NoCustomObjectWithoutRow ==
    \A k \in cluster.custom_objects :
        \E e \in DOMAIN envs :
            Key(envs[e].k8s_namespace, envs[e].k8s_deployment_name) = k

C26_LifecycleIsSerialized ==
    /\ \A e \in DOMAIN restarting :
           ~(/\ lastOp.env = e
             /\ lastOp.op \in {"start", "stop", "delete"}
             /\ lastOp.calls # <<>>)
    /\ lastOp.op = "start"
       => Cardinality({i \in DOMAIN lastOp.calls :
                          lastOp.calls[i] = ScaleCall(1, "ok")}) <= 1
====
